---- MODULE Spec2Model ----
(***************************************************************************)
(* A model of management/backup.py: the configuration store                *)
(* (get_backup_config, backup_set_custom, write_backup_config), the status *)
(* collector and retention predictor (backup_status), the full-backup      *)
(* policy (should_force_full) and the orchestrator (perform_backup).       *)
(*                                                                         *)
(* Python values are tagged records [t, v]: an int, a str (a sequence of   *)
(* tokens; a digit string is a sequence of one-character tokens), None, or *)
(* the marker of a key a dict does not hold.  A dict is a function over    *)
(* Keys whose absent keys map to NoKey.                                    *)
(***************************************************************************)
EXTENDS Integers, Sequences, FiniteSets, TLC

VARIABLES
    \* ---- the configuration store
    doc,             \* the persisted document backup/custom.yaml
    default_config,  \* the module-level dict default_config of this process
    written,         \* arguments of the last completed backup_set_custom
                     \* whose document has not been touched since, or NoArgs
    cfgResult,       \* what the last get_backup_config() call returned
    lastOp,          \* the last operation on the store
    \* ---- the status collector / retention predictor / full-backup policy
    stPc,            \* position of the status computation
    statusLines,     \* full/inc lines of duplicity's collection-status output
    now,             \* datetime.now(), minutes since the epoch
    statusResult,    \* what backup_status returned (or the error it raised)
    forceFull,       \* what should_force_full returned
    \* ---- the orchestrator, one entry per invocation of backup.py
    pc,              \* position of each invocation in perform_backup
    requested,       \* the full_backup argument of the invocation
    full_backup,     \* the local full_backup after line 221
    config,          \* the local config of perform_backup (line 187)
    chain,           \* the chain the status query of this run reported
    log,             \* commands issued and warnings logged by the run
    err,             \* the exception that ended the run, or "none"
    lock,            \* holder of the exclusive process lock "backup"
    svc,             \* state of the dependent services
    fs,              \* which of the directories exist
    passLen,         \* length of the stripped first line of secret_key.txt
    postScript       \* whether backup/after-backup exists

vars == << doc, default_config, written, cfgResult, lastOp,
           stPc, statusLines, now, statusResult, forceFull,
           pc, requested, full_backup, config, chain, log, err, lock, svc, fs,
           passLen, postScript >>

cfgVars == << doc, default_config, written, cfgResult, lastOp >>
stVars == << stPc, statusLines, now, statusResult, forceFull >>
runVars == << pc, requested, full_backup, config, chain, log, err, lock, svc,
              fs, passLen, postScript >>

-----------------------------------------------------------------------------
(* Bounds of the model. *)

\* longest min_age string handed to backup_set_custom
MaxAgeDigits == 2
\* most full/inc lines in a collection-status output
MaxLines == 3

-----------------------------------------------------------------------------
(* Python values. *)

IntV(n) == [t |-> "int", v |-> n]
StrV(s) == [t |-> "str", v |-> s]
PyNone == [t |-> "none", v |-> 0]
NoKey == [t |-> "nokey", v |-> 0]

Keys == {"min_age_in_days", "target", "target_user", "target_pass", "other"}

EmptyDict == [k \in Keys |-> NoKey]

Digits == <<"0", "1", "2", "3", "4", "5", "6", "7", "8", "9">>

IsDigit(c) == \E i \in 1..10 : Digits[i] = c

DigitVal(c) == (CHOOSE i \in 1..10 : Digits[i] = c) - 1

AllDigits(s) == Len(s) > 0 /\ \A i \in 1..Len(s) : IsDigit(s[i])

\* int(s) for a str s of decimal digits, read left to right.
RECURSIVE ParseDigits(_, _)
ParseDigits(s, acc) ==
    IF s = <<>> THEN acc
    ELSE ParseDigits(Tail(s), acc * 10 + DigitVal(Head(s)))

\* str(n) for n >= 0: the decimal digits of n.
RECURSIVE FormatDigits(_)
FormatDigits(n) ==
    IF n < 10 THEN <<Digits[n + 1]>>
    ELSE Append(FormatDigits(n \div 10), Digits[(n % 10) + 1])

ValueError == [t |-> "error", v |-> "ValueError"]

\* int(x) as line 331 calls it on a str: a ValueError on anything but digits.
PyInt(x) == IF AllDigits(x.v) THEN IntV(ParseDigits(x.v, 0)) ELSE ValueError

-----------------------------------------------------------------------------
(* rtyaml: a document is absent, unparseable, a parseable non-mapping, or a *)
(* mapping of keys to scalars.  A scalar is its text and whether it is      *)
(* quoted; a plain scalar of digits loads as an int, a plain null as None.  *)

Plain(text) == [style |-> "plain", text |-> text]
Quoted(text) == [style |-> "quoted", text |-> text]
NoEntry == [style |-> "none", text |-> <<>>]

NullText == <<"null">>

\* yaml's implicit resolution of a plain scalar
ResolvesToInt(text) == AllDigits(text)
ResolvesToNull(text) == text = NullText

\* rtyaml.dump of one value (line 366)
DumpValue(x) ==
    CASE x.t = "int" -> Plain(FormatDigits(x.v))
      [] x.t = "none" -> Plain(NullText)
      [] x.t = "str" ->
            IF ResolvesToInt(x.v) \/ ResolvesToNull(x.v) \/ x.v = <<>>
            THEN Quoted(x.v) ELSE Plain(x.v)
      [] OTHER -> NoEntry

\* rtyaml.load of one scalar (line 344)
LoadValue(y) ==
    CASE y.style = "none" -> NoKey
      [] y.style = "quoted" -> StrV(y.text)
      [] ResolvesToInt(y.text) -> IntV(ParseDigits(y.text, 0))
      [] ResolvesToNull(y.text) -> PyNone
      [] OTHER -> StrV(y.text)

AbsentDoc == [kind |-> "absent", body |-> [k \in Keys |-> NoEntry]]
GarbageDoc == [kind |-> "garbage", body |-> [k \in Keys |-> NoEntry]]
NonMapDoc == [kind |-> "nonmap", body |-> [k \in Keys |-> NoEntry]]

\* rtyaml.dump(newconfig) written to custom.yaml
write_backup_config(newconfig) ==
    [kind |-> "map", body |-> [k \in Keys |-> DumpValue(newconfig[k])]]

-----------------------------------------------------------------------------
(* The configuration store. *)

DefaultTarget == <<"file", ":", "//STORAGE_ROOT/backup/encrypted">>
S3Target == <<"s3", ":", "//bucket/box">>

DefaultMinAge == 3

\* default_config as the module defines it (lines 29-32)
BuiltinDefaults ==
    [EmptyDict EXCEPT !["min_age_in_days"] = IntV(DefaultMinAge),
                      !["target"] = StrV(DefaultTarget)]

\* Whether get_backup_config takes the except branch (lines 343-347).
LoadFails(d) == d.kind # "map"

\* get_backup_config (lines 342-352): the loaded mapping itself is returned,
\* merged_config is built and dropped; on failure the module's dict is
\* returned, not a copy of it.
get_backup_config(d, dc) ==
    IF LoadFails(d) THEN dc ELSE [k \in Keys |-> LoadValue(d.body[k])]

\* Whether the dict get_backup_config returned is default_config itself.
ReturnsDefaultObject(d) == LoadFails(d)

\* Mutant of CoerceMinAge: the int() of line 331 is left out.
CoerceMinAgeNoInt(min_age) == min_age

\* min_age after lines 330-331
CoerceMinAge(min_age) == IF min_age.t = "str" THEN PyInt(min_age) ELSE min_age

\* config after lines 333-336
UpdatedConfig(cfg, target, target_user, target_pass, min_age) ==
    [cfg EXCEPT !["target"] = target,
                !["target_user"] = target_user,
                !["target_pass"] = target_pass,
                !["min_age_in_days"] = min_age]

NoArgs == [target |-> PyNone, target_user |-> PyNone, target_pass |-> PyNone,
           min_age |-> PyNone, set |-> FALSE]

NoResult == [k \in Keys |-> [t |-> "noresult", v |-> 0]]

\* backup_set_custom (lines 326-340)
backup_set_custom(target, target_user, target_pass, min_age) ==
    LET cfg == get_backup_config(doc, default_config)
        age == CoerceMinAge(min_age)
        new == UpdatedConfig(cfg, target, target_user, target_pass, age)
    IN  /\ cfgResult' = NoResult
        /\ IF age.t = "error"
           THEN /\ lastOp' = "set_failed"
                /\ UNCHANGED << doc, default_config, written >>
           ELSE /\ lastOp' = "set"
                /\ default_config' =
                       IF ReturnsDefaultObject(doc) THEN new ELSE default_config
                /\ doc' = write_backup_config(new)
                /\ written' = [target |-> target, target_user |-> target_user,
                               target_pass |-> target_pass, min_age |-> min_age,
                               set |-> TRUE]
        /\ UNCHANGED << stVars, runVars >>

\* a caller's get_backup_config()
Get ==
    /\ cfgResult' = get_backup_config(doc, default_config)
    /\ lastOp' = "get"
    /\ UNCHANGED << doc, default_config, written, stVars, runVars >>

\* custom.yaml is removed, or overwritten with something that is no mapping
Corrupt(d) ==
    /\ doc' = d
    /\ written' = NoArgs
    /\ cfgResult' = NoResult
    /\ lastOp' = "corrupt"
    /\ UNCHANGED << default_config, stVars, runVars >>

\* custom.yaml is edited by hand into another mapping
Edit(d) ==
    /\ doc' = d
    /\ written' = NoArgs
    /\ cfgResult' = NoResult
    /\ lastOp' = "edit"
    /\ UNCHANGED << default_config, stVars, runVars >>

-----------------------------------------------------------------------------
(* Dates.  A datetime is a number of minutes since 2017-01-01 00:00; the    *)
(* years the model's dates lie in have no 29th of February, and all dates   *)
(* are in one time zone.  A date string of the status listing sorts as the  *)
(* datetime it denotes.                                                     *)

MinutesPerHour == 6 * 10
MinutesPerDay == 24 * MinutesPerHour

\* days of the year before the first of month m (m = 13: the days of a year)
DaysBefore == <<0, 31, 59, 90, 120, 151, 181, 212, 243, 273, 304, 334, 365>>

DaysInMonth(m) == DaysBefore[m + 1] - DaysBefore[m]

DaysPerYear == DaysBefore[13]

MonthOfDay(doy) ==
    CHOOSE m \in 1..12 : DaysBefore[m] <= doy /\ doy < DaysBefore[m + 1]

FieldsOf(year, doy, m, minute) ==
    [year |-> year, month |-> m, day |-> doy - DaysBefore[m] + 1, minute |-> minute]

FieldsOfDay(dayno, minute) ==
    FieldsOf(dayno \div DaysPerYear, dayno % DaysPerYear,
             MonthOfDay(dayno % DaysPerYear), minute)

\* the fields of a datetime
Fields(t) == FieldsOfDay(t \div MinutesPerDay, t % MinutesPerDay)

DateTime(year, month, day, minute) ==
    (year * DaysPerYear + DaysBefore[month] + day - 1) * MinutesPerDay + minute

Min(a, b) == IF a < b THEN a ELSE b

\* the datetime of fields f moved to month number mi (years * 12 + months),
\* its day clipped to that month's end
InMonth(f, mi) ==
    DateTime(mi \div 12, (mi % 12) + 1, Min(f.day, DaysInMonth((mi % 12) + 1)),
             f.minute)

MonthNumber(f) == f.year * 12 + (f.month - 1)

\* datetime + relativedelta(months=k)
AddMonthsTo(f, k) == InMonth(f, MonthNumber(f) + k)

AddMonths(t, k) == AddMonthsTo(Fields(t), k)

\* relativedelta's normal form of a whole number of months and the minutes
\* left over
Normalized(months, rest) ==
    [years |-> months \div 12,
     months |-> months % 12,
     days |-> rest \div MinutesPerDay,
     hours |-> (rest % MinutesPerDay) \div MinutesPerHour,
     minutes |-> rest % MinutesPerHour]

DeltaOf(dt1, dt2, months) == Normalized(months, dt1 - AddMonths(dt2, months))

\* the month difference of the fields, one less when that overshoots dt1
DeltaFrom(dt1, dt2, m0) ==
    DeltaOf(dt1, dt2, IF dt1 < AddMonths(dt2, m0) THEN m0 - 1 ELSE m0)

\* dateutil.relativedelta.relativedelta(dt1, dt2) for dt1 >= dt2 (line 47)
relativedelta(dt1, dt2) ==
    DeltaFrom(dt1, dt2, MonthNumber(Fields(dt1)) - MonthNumber(Fields(dt2)))

\* A formatted text: which format string, and the two numbers put into it.
Text(kind, a, b) == [kind |-> kind, a |-> a, b |-> b]
NoText == Text("None", 0, 0)

\* lines 48-53
FormatDelta(rd) ==
    CASE rd.months > 1 -> Text("%d months, %d days", rd.months, rd.days)
      [] rd.months = 1 -> Text("%d month, %d days", rd.months, rd.days)
      [] rd.days >= 7 -> Text("%d days", rd.days, 0)
      [] rd.days > 1 -> Text("%d days, %d hours", rd.days, rd.hours)
      [] rd.days = 1 -> Text("%d day, %d hours", rd.days, rd.hours)
      [] OTHER -> Text("%d hours, %d minutes", rd.hours, rd.minutes)

\* reldate (lines 45-53)
reldate(date, ref, clip) ==
    IF ref < date THEN Text(clip, 0, 0) ELSE FormatDelta(relativedelta(ref, date))

-----------------------------------------------------------------------------
(* The environment of a duplicity call. *)

PassphraseMin == 43

\* get_target_type (lines 179-181): the tokens of target before the first ":"
RECURSIVE BeforeColon(_)
BeforeColon(s) ==
    IF s = <<>> \/ Head(s) = ":" THEN <<>>
    ELSE <<Head(s)>> \o BeforeColon(Tail(s))

get_target_type(cfg) == BeforeColon(cfg["target"].v)

\* the exception get_target_type(cfg) raises, or "none"
TargetTypeError(cfg) ==
    CASE cfg["target"].t = "nokey" -> "KeyError"
      [] cfg["target"].t # "str" -> "AttributeError"
      [] OTHER -> "none"

\* get_passphrase (lines 155-166): the exception it raises, or "none"
get_passphrase(plen) ==
    IF plen < PassphraseMin THEN "PassphraseTooShort" ELSE "none"

\* get_env (lines 168-177): the exception it raises, or "none".  cfg is what
\* its own get_backup_config() call returns.
get_env(cfg, plen) ==
    CASE get_passphrase(plen) # "none" -> get_passphrase(plen)
      [] TargetTypeError(cfg) # "none" -> TargetTypeError(cfg)
      [] get_target_type(cfg) = <<"s3">>
         /\ (cfg["target_user"].t = "nokey" \/ cfg["target_pass"].t = "nokey")
           -> "KeyError"
      [] OTHER -> "none"

-----------------------------------------------------------------------------
(* The status collector and the retention predictor. *)

\* Sizes are counted in units of 1000000 bytes (the last factor of line 63),
\* which keeps every sum and product of them within TLC's integers.
VolumeSize == 250

\* parse_line (lines 55-64); date_str, a rendering of date, is left out
parse_line(line, nowT) ==
    [date |-> line.date,
     date_delta |-> reldate(line.date, nowT, "the future?"),
     full |-> line.type = "full",
     size |-> line.vols * VolumeSize,
     deleted_in |-> NoText]

\* line 85: backups[backup["date"]] = backup
Store(acc, b) == {x \in acc : x.date # b.date} \cup {b}

\* lines 82-85: the dict backups, keyed by date; a later line of the same
\* date replaces an earlier one
RECURSIVE CollectLines(_, _, _)
CollectLines(lines, nowT, acc) ==
    IF lines = <<>> THEN acc
    ELSE CollectLines(Tail(lines), nowT, Store(acc, parse_line(Head(lines), nowT)))

Newest(S) == CHOOSE b \in S : \A x \in S : x.date <= b.date

\* line 89: sorted(..., key = date, reverse = True)
RECURSIVE SortedReverse(_)
SortedReverse(S) ==
    IF S = {} THEN <<>>
    ELSE <<Newest(S)>> \o SortedReverse(S \ {Newest(S)})

\* lines 93-101: count and size of the increments before the first full
\* backup, and that backup's size (-1 for None)
RECURSIVE ScanIncrements(_, _, _)
ScanIncrements(backups, count, size) ==
    IF backups = <<>> THEN [count |-> count, size |-> size, first_full_size |-> -1]
    ELSE IF Head(backups).full
         THEN [count |-> count, size |-> size, first_full_size |-> Head(backups).size]
         ELSE ScanIncrements(Tail(backups), count + 1, size + Head(backups).size)

RoundTo(q, r, den) ==
    IF 2 * r < den THEN q
    ELSE IF 2 * r > den THEN q + 1
    ELSE IF q % 2 = 0 THEN q ELSE q + 1

\* round(num / den) for den > 0: to the nearest integer, a tie to the even one
Round(num, den) == RoundTo(num \div den, num % den, den)

\* line 110: round(min_age + (.5 * full - inc) / (inc / count) + .5), the
\* quotient taken exactly: (2*min_age*inc + (full - 2*inc)*count + inc) / (2*inc)
ApproxDays(min_age, s) ==
    Text("approx. %d days",
         Round(2 * min_age * s.size + (s.first_full_size - 2 * s.size) * s.count + s.size,
               2 * s.size),
         0)

\* lines 108-110
FirstEstimate(min_age, s) ==
    IF s.count > 0 /\ s.first_full_size # -1 THEN ApproxDays(min_age, s) ELSE NoText

LoopState(bak, saw_full, deleted_in) ==
    [bak |-> bak, saw_full |-> saw_full, deleted_in |-> deleted_in]

\* lines 126-127
MarkFirstIncrement(bak, saw_full, d) ==
    LoopState([bak EXCEPT !.deleted_in = d], saw_full, d)

\* lines 120-127, bak being the record lines 116-119 leave
MarkRest(bak, saw_full, deleted_in, days_ago) ==
    IF bak.full THEN LoopState(bak, TRUE, NoText)
    ELSE IF saw_full /\ deleted_in = NoText
    THEN MarkFirstIncrement(bak, saw_full,
                            reldate(days_ago, bak.date, "on next daily backup"))
    ELSE LoopState(bak, saw_full, deleted_in)

\* Mutant of MarkOne: lines 116-119 are left out, so a running estimate is
\* not handed on to the records that follow.
MarkOneNoHandOn(bak, saw_full, deleted_in, days_ago) ==
    MarkRest(bak, saw_full, deleted_in, days_ago)

\* the body of the loop of lines 115-127 for one record: the record as it is
\* left, and the loop's saw_full and deleted_in after it
MarkOne(bak, saw_full, deleted_in, days_ago) ==
    MarkRest(IF deleted_in # NoText THEN [bak EXCEPT !.deleted_in = deleted_in]
             ELSE bak,
             saw_full, deleted_in, days_ago)

RECURSIVE MarkFrom(_, _, _)
MarkFrom(r, rest, days_ago) ==
    <<r.bak>> \o
    (IF rest = <<>> THEN <<>>
     ELSE MarkFrom(MarkOne(Head(rest), r.saw_full, r.deleted_in, days_ago),
                   Tail(rest), days_ago))

\* lines 113-127
MarkDeletedIn(backups, saw_full, deleted_in, days_ago) ==
    IF backups = <<>> THEN <<>>
    ELSE MarkFrom(MarkOne(Head(backups), saw_full, deleted_in, days_ago),
                  Tail(backups), days_ago)

StatusOk(backups) == [error |-> "none", backups |-> backups]
StatusError(e) == [error |-> e, backups |-> <<>>]

\* lines 91-134 on the sorted rows
Predict(backups, min_age, nowT) ==
    StatusOk(MarkDeletedIn(backups, FALSE,
                           FirstEstimate(min_age, ScanIncrements(backups, 0, 0)),
                           nowT - min_age * MinutesPerDay))

\* backup_status (lines 34-134) once the collection-status query has
\* returned its output: the "backups" entry of the result, or the error raised
backup_status(lines, cfg, nowT) ==
    CASE cfg["min_age_in_days"].t = "nokey" -> StatusError("KeyError")
      [] cfg["min_age_in_days"].t # "int" -> StatusError("TypeError")
      [] OTHER -> Predict(SortedReverse(CollectLines(lines, nowT, {})),
                          cfg["min_age_in_days"].v, nowT)

StatusAfterEnv(cfg, envError, ok, lines, nowT) ==
    CASE envError # "none" -> StatusError(envError)
      [] ~ok -> StatusError("CalledProcessError")
      [] OTHER -> backup_status(lines, cfg, nowT)

\* backup_status (lines 34-134) as a whole.  cfg is the config of line 38,
\* envcfg the one get_env loads, ok whether duplicity exited with 0, lines
\* the full/inc lines of its output.
StatusQuery(cfg, envcfg, plen, ok, lines, nowT) ==
    IF cfg["target"].t = "nokey" THEN StatusError("KeyError")
    ELSE StatusAfterEnv(cfg, get_env(envcfg, plen), ok, lines, nowT)

-----------------------------------------------------------------------------
(* The full-backup policy. *)

\* Mutant of OverHalf: the threshold is taken inclusive.
OverHalfInclusive(inc_size, size) == 2 * inc_size >= size

\* line 149: inc_size > .5 * size, both sides doubled
OverHalf(inc_size, size) == 2 * inc_size > size

\* should_force_full (lines 136-153) on the "backups" of backup_status
RECURSIVE ForceFullScan(_, _)
ForceFullScan(backups, inc_size) ==
    IF backups = <<>> THEN TRUE
    ELSE IF ~Head(backups).full
         THEN ForceFullScan(Tail(backups), inc_size + Head(backups).size)
         ELSE OverHalf(inc_size, Head(backups).size)

should_force_full(backups) == ForceFullScan(backups, 0)

-----------------------------------------------------------------------------
(* Inputs of the configuration store. *)

Targets == {StrV(DefaultTarget), StrV(S3Target)}
\* target_user and target_pass as the caller pairs them
Credentials == {<<PyNone, PyNone>>, <<StrV(<<"AKIA">>), StrV(<<"secret">>)>>}

AgeChars == {"0", "7"}

\* the sequences over S of length at most n
SeqsUpTo(S, n) == UNION {[1..k -> S] : k \in 0..n}

\* min_age as an int, or as a str of up to MaxAgeDigits characters (the empty
\* str is the one int() rejects)
MinAges ==
    {IntV(0), IntV(7)} \cup {StrV(s) : s \in SeqsUpTo(AgeChars, MaxAgeDigits)}

\* documents a hand edit leaves behind: mappings that lack fields or carry
\* a key of their own
EditedBody(hasAge, hasTarget, hasOther) ==
    [k \in Keys |->
        CASE k = "min_age_in_days" /\ hasAge -> Plain(<<"7">>)
          [] k = "target" /\ hasTarget -> Plain(S3Target)
          [] k = "other" /\ hasOther -> Plain(<<"kept">>)
          [] OTHER -> NoEntry]

EditedDocs ==
    {[kind |-> "map", body |-> EditedBody(a, t, o)] : a, t, o \in BOOLEAN}

BrokenDocs == {AbsentDoc, GarbageDoc, NonMapDoc}

IdleStatus ==
    /\ stPc = "unused"
    /\ statusLines = <<>>
    /\ now = 0
    /\ statusResult = [error |-> "none", backups |-> <<>>]
    /\ forceFull = FALSE

Procs == {"p1", "p2"}

IdleRuns ==
    /\ pc = [p \in Procs |-> "unused"]
    /\ requested = [p \in Procs |-> FALSE]
    /\ full_backup = [p \in Procs |-> FALSE]
    /\ config = [p \in Procs |-> EmptyDict]
    /\ chain = [p \in Procs |-> <<>>]
    /\ log = [p \in Procs |-> <<>>]
    /\ err = [p \in Procs |-> "none"]
    /\ lock = "free"
    /\ svc = [s \in {"dovecot", "postfix"} |-> "running"]
    /\ fs = [old |-> FALSE, migrated |-> FALSE, encrypted |-> TRUE]
    /\ passLen = 43
    /\ postScript = FALSE

ConfigInit ==
    /\ doc \in BrokenDocs
    /\ default_config = BuiltinDefaults
    /\ written = NoArgs
    /\ cfgResult = NoResult
    /\ lastOp = "none"
    /\ IdleStatus
    /\ IdleRuns

ConfigNext ==
    \/ \E t \in Targets, c \in Credentials, a \in MinAges :
           backup_set_custom(t, c[1], c[2], a)
    \/ Get
    \/ \E d \in BrokenDocs : Corrupt(d)
    \/ \E d \in EditedDocs : Edit(d)

ConfigSpec == ConfigInit /\ [][ConfigNext]_vars

-----------------------------------------------------------------------------
(* The status collector and the policy on their own: every listing of up    *)
(* to MaxLines full/inc lines, in any order, dates repeated or not.         *)

At(day, minute) == day * MinutesPerDay + minute

StatusDates == {At(10, 0), At(48, 180), At(50, 307)}
Nows == {At(52, 600), At(9, 0)}
Vols == {1, 2}

StatusLine == [type : {"full", "inc"}, date : StatusDates, vols : Vols]

StatusOutputs == SeqsUpTo(StatusLine, MaxLines)

\* a custom.yaml as backup_set_custom writes it
SetDoc(target, user, pass, age) ==
    write_backup_config(UpdatedConfig(BuiltinDefaults, target, user, pass, age))

S3Doc == SetDoc(StrV(S3Target), StrV(<<"AKIA">>), StrV(<<"secret">>), IntV(7))

IdleConfig ==
    /\ default_config = BuiltinDefaults
    /\ written = NoArgs
    /\ cfgResult = NoResult
    /\ lastOp = "none"

StatusInit ==
    /\ doc \in {AbsentDoc, S3Doc}
    /\ IdleConfig
    /\ stPc = "start"
    /\ statusLines \in StatusOutputs
    /\ now \in Nows
    /\ statusResult = StatusOk(<<>>)
    /\ forceFull = FALSE
    /\ IdleRuns

\* backup_status(env)
CollectStatus ==
    /\ stPc = "start"
    /\ \E ok \in BOOLEAN :
           statusResult' = StatusQuery(get_backup_config(doc, default_config),
                                       get_backup_config(doc, default_config),
                                       passLen, ok, statusLines, now)
    /\ stPc' = "collected"
    /\ UNCHANGED << cfgVars, statusLines, now, forceFull, runVars >>

\* should_force_full(env) on that status
DecideFull ==
    /\ stPc = "collected"
    /\ \/ /\ statusResult.error = "none"
          /\ forceFull' = should_force_full(statusResult.backups)
          /\ stPc' = "decided"
       \/ /\ statusResult.error # "none"
          /\ forceFull' = forceFull
          /\ stPc' = "raised"
    /\ UNCHANGED << cfgVars, statusLines, now, statusResult, runVars >>

StatusNext == CollectStatus \/ DecideFull

StatusSpec == StatusInit /\ [][StatusNext]_vars

-----------------------------------------------------------------------------
(* The orchestrator: perform_backup, one step per action.  log[p] is what   *)
(* invocation p has issued so far: service commands, the duplicity calls    *)
(* after mode selection, chown, the post-backup script, the port waits and  *)
(* the warnings it logged.                                                  *)

Event(op, arg, ok) == [op |-> op, arg |-> arg, ok |-> ok]

Goto(p, where) == pc' = [pc EXCEPT ![p] = where]

\* an exception leaves perform_backup
Raise(p, e) ==
    /\ pc' = [pc EXCEPT ![p] = "aborted"]
    /\ err' = [err EXCEPT ![p] = e]

Issue(p, events) == log' = [log EXCEPT ![p] = @ \o events]

\* backup.py is started, with or without --full (lines 378-379, 183-184)
Invoke(p, full) ==
    /\ pc[p] = "idle"
    /\ requested' = [requested EXCEPT ![p] = full]
    /\ full_backup' = [full_backup EXCEPT ![p] = full]
    /\ Goto(p, "guard")
    /\ UNCHANGED << cfgVars, stVars, config, chain, log, err, lock, svc, fs,
                    passLen, postScript >>

\* utils.exclusive_process("backup"): whether the caller gets the lock; it
\* neither waits nor queues
exclusive_process(p) == lock = "free"

\* Mutant of EntryGuard: the call of line 186 is left out.
EntryGuardUnguarded(p) ==
    /\ pc[p] = "guard"
    /\ lock' = p
    /\ config' = [config EXCEPT ![p] = get_backup_config(doc, default_config)]
    /\ pc' = [pc EXCEPT ![p] = "migrate"]
    /\ UNCHANGED << cfgVars, stVars, requested, full_backup, chain, log, err, svc,
                    fs, passLen, postScript >>

\* lines 186-189
EntryGuard(p) ==
    /\ pc[p] = "guard"
    /\ IF exclusive_process(p)
       THEN /\ lock' = p
            /\ config' = [config EXCEPT ![p] = get_backup_config(doc, default_config)]
            /\ Goto(p, "migrate")
            /\ UNCHANGED err
       ELSE /\ Raise(p, "AlreadyRunning")
            /\ UNCHANGED << lock, config >>
    /\ UNCHANGED << cfgVars, stVars, requested, full_backup, chain, log, svc, fs,
                    passLen, postScript >>

\* Mutant of Migrate: the rmtree of line 215 is taken out of the if of line
\* 205, so backup/encrypted is cleared in every run.
MigrateClearsAlways(p) ==
    /\ pc[p] = "migrate"
    /\ fs' = [old |-> FALSE, migrated |-> fs.migrated \/ fs.old, encrypted |-> FALSE]
    /\ log' = [log EXCEPT ![p] =
                  @ \o (IF fs.old THEN <<Event("move", "backup/duplicity", TRUE)>>
                        ELSE <<>>)
                    \o <<Event("rmtree", "backup/encrypted", fs.encrypted)>>]
    /\ IF fs.encrypted
       THEN pc' = [pc EXCEPT ![p] = "mode"] /\ UNCHANGED err
       ELSE /\ pc' = [pc EXCEPT ![p] = "aborted"]
            /\ err' = [err EXCEPT ![p] = "FileNotFoundError"]
    /\ UNCHANGED << cfgVars, stVars, requested, full_backup, config, chain,
                    lock, svc, passLen, postScript >>

\* lines 203-215: shutil.move, then shutil.rmtree(backup_dir), which raises
\* when there is no backup/encrypted
Migrate(p) ==
    /\ pc[p] = "migrate"
    /\ IF fs.old
       THEN /\ fs' = [old |-> FALSE, migrated |-> TRUE, encrypted |-> FALSE]
            /\ Issue(p, <<Event("move", "backup/duplicity", TRUE),
                          Event("rmtree", "backup/encrypted", fs.encrypted)>>)
            /\ IF fs.encrypted
               THEN Goto(p, "mode") /\ UNCHANGED err
               ELSE Raise(p, "FileNotFoundError")
       ELSE /\ Goto(p, "mode")
            /\ UNCHANGED << fs, log, err >>
    /\ UNCHANGED << cfgVars, stVars, requested, full_backup, config, chain,
                    lock, svc, passLen, postScript >>

\* line 221 when should_force_full(env) is called: st is what its
\* backup_status(env) returned or raised
ModeFrom(p, st) ==
    IF st.error # "none"
    THEN /\ Raise(p, st.error)
         /\ UNCHANGED << full_backup, chain >>
    ELSE /\ full_backup' = [full_backup EXCEPT ![p] = should_force_full(st.backups)]
         /\ chain' = [chain EXCEPT ![p] = st.backups]
         /\ Goto(p, "stop_dovecot")
         /\ UNCHANGED err

\* line 221: full_backup = full_backup or should_force_full(env)
SelectMode(p, ok, lines) ==
    /\ pc[p] = "mode"
    /\ IF full_backup[p]
       THEN /\ Goto(p, "stop_dovecot")
            /\ UNCHANGED << full_backup, chain, err >>
       ELSE ModeFrom(p, StatusQuery(get_backup_config(doc, default_config),
                                    get_backup_config(doc, default_config),
                                    passLen, ok, lines, now))
    /\ UNCHANGED << cfgVars, stVars, requested, config, log, lock, svc, fs,
                    passLen, postScript >>

\* Mutant of StopService: call instead of check_call, the exit is not looked at.
StopServiceUnchecked(p, at, name, next, ok) ==
    /\ pc[p] = at
    /\ log' = [log EXCEPT ![p] = Append(@, [op |-> "stop", arg |-> name, ok |-> ok])]
    /\ svc' = [svc EXCEPT ![name] = IF ok THEN "stopped" ELSE @]
    /\ pc' = [pc EXCEPT ![p] = next]
    /\ UNCHANGED << cfgVars, stVars, requested, full_backup, config, chain, err,
                    lock, fs, passLen, postScript >>

\* lines 224-225: service <name> stop; check_call raises on a non-zero exit
StopService(p, at, name, next, ok) ==
    /\ pc[p] = at
    /\ Issue(p, <<Event("stop", name, ok)>>)
    /\ IF ok
       THEN /\ svc' = [svc EXCEPT ![name] = "stopped"]
            /\ Goto(p, next)
            /\ UNCHANGED err
       ELSE /\ Raise(p, "CalledProcessError")
            /\ UNCHANGED svc
    /\ UNCHANGED << cfgVars, stVars, requested, full_backup, config, chain, lock,
                    fs, passLen, postScript >>

StopServices(p, ok) ==
    \/ StopService(p, "stop_dovecot", "dovecot", "stop_postfix", ok)
    \/ StopService(p, "stop_postfix", "postfix", "snapshot", ok)

\* the exception raised while the arguments of a duplicity call are built
\* (config["target"], then get_env()), or "none"
CallError(cfg, envcfg, plen) ==
    IF cfg["target"].t = "nokey" THEN "KeyError" ELSE get_env(envcfg, plen)

\* Mutant of Mode: the two modes of line 233 are swapped.
ModeSwapped(full) == IF full THEN "incr" ELSE "full"

\* line 233
Mode(full) == IF full THEN "full" ELSE "incr"

\* lines 230-243 up to the start of duplicity; an exception raised before
\* it is started is caught at line 245 like any other
SnapshotBeginWith(p, e) ==
    IF e # "none"
    THEN /\ Issue(p, <<Event("warn", "Backup failed", TRUE)>>)
         /\ Goto(p, "start_dovecot")
    ELSE /\ Issue(p, <<Event("snapshot_begin", Mode(full_backup[p]), TRUE)>>)
         /\ Goto(p, "snapshot_running")

SnapshotBegin(p) ==
    /\ pc[p] = "snapshot"
    /\ SnapshotBeginWith(p, CallError(config[p],
                                      get_backup_config(doc, default_config), passLen))
    /\ UNCHANGED << cfgVars, stVars, requested, full_backup, config, chain, err,
                    lock, svc, fs, passLen, postScript >>

\* lines 243-246: duplicity ends; a failure is logged as a warning
SnapshotEnd(p, ok) ==
    /\ pc[p] = "snapshot_running"
    /\ Issue(p, <<Event("snapshot_end", Mode(full_backup[p]), ok),
                  IF ok THEN Event("info", "Backup successful", TRUE)
                  ELSE Event("warn", "Backup failed", TRUE)>>)
    /\ fs' = IF ok /\ get_target_type(config[p]) = <<"file">>
             THEN [fs EXCEPT !.encrypted = TRUE] ELSE fs
    /\ Goto(p, "start_dovecot")
    /\ UNCHANGED << cfgVars, stVars, requested, full_backup, config, chain, err,
                    lock, svc, passLen, postScript >>

\* lines 247-250: the finally block, one service start after the other
StartService(p, at, name, next, ok) ==
    /\ pc[p] = at
    /\ Issue(p, <<Event("start", name, ok)>>)
    /\ IF ok
       THEN /\ svc' = [svc EXCEPT ![name] = "running"]
            /\ Goto(p, next)
            /\ UNCHANGED err
       ELSE /\ Raise(p, "CalledProcessError")
            /\ UNCHANGED svc
    /\ UNCHANGED << cfgVars, stVars, requested, full_backup, config, chain, lock,
                    fs, passLen, postScript >>

StartServices(p, ok) ==
    \/ StartService(p, "start_dovecot", "dovecot", "start_postfix", ok)
    \/ StartService(p, "start_postfix", "postfix", "post_migration", ok)

\* lines 252-254
PostMigrationCleanup(p) ==
    /\ pc[p] = "post_migration"
    /\ IF fs.migrated
       THEN /\ fs' = [fs EXCEPT !.migrated = FALSE]
            /\ Issue(p, <<Event("rmtree", "migrated_unencrypted_backup", TRUE)>>)
       ELSE UNCHANGED << fs, log >>
    /\ Goto(p, "prune")
    /\ UNCHANGED << cfgVars, stVars, requested, full_backup, config, chain,
                    err, lock, svc, passLen, postScript >>

\* the exception "%dD" % config["min_age_in_days"] raises, or "none"
AgeFormatError(cfg) ==
    CASE cfg["min_age_in_days"].t = "nokey" -> "KeyError"
      [] cfg["min_age_in_days"].t # "int" -> "TypeError"
      [] OTHER -> "none"

\* Mutant of TriedCall: there is no try/except around the call, so whatever
\* it raises leaves perform_backup.
TriedCallFatal(p, e, what, warning, next, ok) ==
    /\ log' = [log EXCEPT ![p] =
                  IF e # "none" THEN @ ELSE Append(@, Event("duplicity", what, ok))]
    /\ pc' = [pc EXCEPT ![p] = IF e = "none" /\ ok THEN next ELSE "aborted"]

\* a duplicity call inside try/except (lines 258-269, 276-286): e is the
\* exception raised before duplicity is started, ok its exit
TriedCall(p, e, what, warning, next, ok) ==
    /\ IF e # "none"
       THEN Issue(p, <<Event("warn", warning, TRUE)>>)
       ELSE IF ok
       THEN Issue(p, <<Event("duplicity", what, TRUE)>>)
       ELSE Issue(p, <<Event("duplicity", what, FALSE), Event("warn", warning, TRUE)>>)
    /\ Goto(p, next)

\* lines 256-269
Prune(p, ok) ==
    /\ pc[p] = "prune"
    /\ TriedCall(p,
                 IF AgeFormatError(config[p]) # "none" THEN AgeFormatError(config[p])
                 ELSE CallError(config[p], get_backup_config(doc, default_config),
                                passLen),
                 "remove-older-than", "Removal of old backups failed", "cleanup", ok)
    /\ UNCHANGED << cfgVars, stVars, requested, full_backup, config, chain, err,
                    lock, svc, fs, passLen, postScript >>

\* lines 271-286
Cleanup(p, ok) ==
    /\ pc[p] = "cleanup"
    /\ TriedCall(p, CallError(config[p], get_backup_config(doc, default_config),
                              passLen),
                 "cleanup", "Cleanup of backups failed", "chown", ok)
    /\ UNCHANGED << cfgVars, stVars, requested, full_backup, config, chain, err,
                    lock, svc, fs, passLen, postScript >>

\* lines 288-291
FinalizeOwnership(p, ok) ==
    /\ pc[p] = "chown"
    /\ IF TargetTypeError(config[p]) # "none"
       THEN Raise(p, TargetTypeError(config[p])) /\ UNCHANGED log
       ELSE IF get_target_type(config[p]) # <<"file">>
       THEN Goto(p, "posthook") /\ UNCHANGED << log, err >>
       ELSE /\ Issue(p, <<Event("chown", "backup/encrypted", ok)>>)
            /\ IF ok THEN Goto(p, "posthook") /\ UNCHANGED err
               ELSE Raise(p, "CalledProcessError")
    /\ UNCHANGED << cfgVars, stVars, requested, full_backup, config, chain, lock,
                    svc, fs, passLen, postScript >>

\* lines 297-300 when the script exists: e is what get_env() raised
RunHook(p, e, ok) ==
    IF e # "none" THEN Raise(p, e) /\ UNCHANGED log
    ELSE /\ Issue(p, <<Event("su", "backup/after-backup", ok)>>)
         /\ IF ok THEN Goto(p, "verify") /\ UNCHANGED err
            ELSE Raise(p, "CalledProcessError")

\* lines 293-300
PostHook(p, ok) ==
    /\ pc[p] = "posthook"
    /\ IF postScript
       THEN RunHook(p, get_env(get_backup_config(doc, default_config), passLen), ok)
       ELSE Goto(p, "verify") /\ UNCHANGED << log, err >>
    /\ UNCHANGED << cfgVars, stVars, requested, full_backup, config, chain, lock,
                    svc, fs, passLen, postScript >>

\* lines 302-307: wait_for_service returns whether the port answered, and
\* nothing reads what it returns
VerifyServices(p) ==
    /\ pc[p] = "verify"
    /\ Issue(p, <<Event("wait", "25", TRUE), Event("wait", "993", TRUE)>>)
    /\ Goto(p, "done")
    /\ UNCHANGED << cfgVars, stVars, requested, full_backup, config, chain, err,
                    lock, svc, fs, passLen, postScript >>

\* the process of the invocation ends and gives up the lock if it holds it;
\* the next invocation is a new process
Exit(p) ==
    /\ pc[p] \in {"done", "aborted"}
    /\ lock' = IF lock = p THEN "free" ELSE lock
    /\ pc' = [pc EXCEPT ![p] = "idle"]
    /\ requested' = [requested EXCEPT ![p] = FALSE]
    /\ full_backup' = [full_backup EXCEPT ![p] = FALSE]
    /\ config' = [config EXCEPT ![p] = EmptyDict]
    /\ chain' = [chain EXCEPT ![p] = <<>>]
    /\ log' = [log EXCEPT ![p] = <<>>]
    /\ err' = [err EXCEPT ![p] = "none"]
    /\ UNCHANGED << cfgVars, stVars, svc, fs, passLen, postScript >>

-----------------------------------------------------------------------------
(* Inputs of the orchestrator. *)

Line(type, date, vols) == [type |-> type, date |-> date, vols |-> vols]

\* collection-status listings: none, a lone full backup, increments of
\* exactly and of more than half its size, increments without a full backup
RunOutputs ==
    { <<>>,
      <<Line("full", At(10, 0), 2)>>,
      <<Line("full", At(10, 0), 2), Line("inc", At(48, 180), 1)>>,
      <<Line("full", At(10, 0), 2), Line("inc", At(48, 180), 2)>>,
      <<Line("inc", At(48, 180), 1)>> }

\* a hand-edited custom.yaml that names no target
NoTargetDoc == [kind |-> "map", body |-> EditedBody(TRUE, FALSE, FALSE)]

RunDocs == {AbsentDoc, S3Doc, NoTargetDoc}

PassLens == {20, 42, 43}

Init ==
    /\ doc \in RunDocs
    /\ IdleConfig
    /\ stPc = "unused"
    /\ statusLines = <<>>
    /\ now = At(52, 600)
    /\ statusResult = StatusOk(<<>>)
    /\ forceFull = FALSE
    /\ pc = [p \in Procs |-> "idle"]
    /\ requested = [p \in Procs |-> FALSE]
    /\ full_backup = [p \in Procs |-> FALSE]
    /\ config = [p \in Procs |-> EmptyDict]
    /\ chain = [p \in Procs |-> <<>>]
    /\ log = [p \in Procs |-> <<>>]
    /\ err = [p \in Procs |-> "none"]
    /\ lock = "free"
    /\ svc = [s \in {"dovecot", "postfix"} |-> "running"]
    /\ fs \in {[old |-> FALSE, migrated |-> FALSE, encrypted |-> TRUE],
               [old |-> TRUE, migrated |-> FALSE, encrypted |-> TRUE],
               [old |-> TRUE, migrated |-> FALSE, encrypted |-> FALSE]}
    /\ passLen \in PassLens
    /\ postScript \in BOOLEAN

Next ==
    \E p \in Procs :
        \/ \E full \in BOOLEAN : Invoke(p, full)
        \/ EntryGuard(p)
        \/ Migrate(p)
        \/ \E ok \in BOOLEAN, lines \in RunOutputs : SelectMode(p, ok, lines)
        \/ \E ok \in BOOLEAN : StopServices(p, ok)
        \/ SnapshotBegin(p)
        \/ \E ok \in BOOLEAN : SnapshotEnd(p, ok)
        \/ \E ok \in BOOLEAN : StartServices(p, ok)
        \/ PostMigrationCleanup(p)
        \/ \E ok \in BOOLEAN : Prune(p, ok)
        \/ \E ok \in BOOLEAN : Cleanup(p, ok)
        \/ \E ok \in BOOLEAN : FinalizeOwnership(p, ok)
        \/ \E ok \in BOOLEAN : PostHook(p, ok)
        \/ VerifyServices(p)
        \/ Exit(p)

Spec == Init /\ [][Next]_vars

-----------------------------------------------------------------------------
(* What the runs have issued. *)

Issued(p, op, arg) ==
    \E i \in DOMAIN log[p] : log[p][i].op = op /\ log[p][i].arg = arg

Succeeded(p, op, arg) ==
    \E i \in DOMAIN log[p] : log[p][i] = Event(op, arg, TRUE)

Failed(p, op, arg) ==
    \E i \in DOMAIN log[p] : log[p][i] = Event(op, arg, FALSE)

IssuedAny(p, op) == \E i \in DOMAIN log[p] : log[p][i].op = op

BothStopped(p) == Succeeded(p, "stop", "dovecot") /\ Succeeded(p, "stop", "postfix")

SnapshotFailed(p) ==
    \E i \in DOMAIN log[p] : log[p][i].op = "snapshot_end" /\ ~log[p][i].ok

Ended(p) == pc[p] \in {"done", "aborted"}

\* the positions of perform_backup after the finally block of lines 247-250
AfterRestart == {"post_migration", "prune", "cleanup", "chown", "posthook",
                 "verify", "done"}

-----------------------------------------------------------------------------
(* The claims. *)

\* C1: once both services have been stopped, on every path through the
\* snapshot invocation a start has been issued for dovecot and for postfix
\* when pruning starts or the run ends, and a failed snapshot is logged as a
\* warning and is not what ends the run.
C1_RestartIssuedOnEveryPath ==
    \A p \in Procs :
        /\ (BothStopped(p) /\ (pc[p] \in AfterRestart \/ pc[p] = "aborted"))
               => (Issued(p, "start", "dovecot") /\ Issued(p, "start", "postfix"))
        /\ SnapshotFailed(p)
               => /\ Succeeded(p, "warn", "Backup failed")
                  /\ pc[p] = "aborted" => Issued(p, "start", "dovecot")

\* C2: when the start of dovecot has failed, the start of postfix has still
\* been issued by the time the run ends.
C2_EveryStartAttempted ==
    \A p \in Procs :
        (Ended(p) /\ Failed(p, "start", "dovecot")) => Issued(p, "start", "postfix")

\* C3: the snapshot invocation starts only after both stops have succeeded,
\* runs while both services are stopped, no start is issued before it or
\* between its start and its end, and it is never run after a failed stop.
C3_SnapshotOnlyWhileStopped ==
    \A p \in Procs :
        /\ \A b \in DOMAIN log[p] :
               log[p][b].op = "snapshot_begin" =>
                   /\ \E i \in 1..(b - 1) : log[p][i] = Event("stop", "dovecot", TRUE)
                   /\ \E i \in 1..(b - 1) : log[p][i] = Event("stop", "postfix", TRUE)
                   /\ \A i \in 1..(b - 1) : log[p][i].op # "start"
                   /\ \A s \in DOMAIN log[p] :
                          (s > b /\ log[p][s].op = "start") =>
                              \E e \in (b + 1)..(s - 1) : log[p][e].op = "snapshot_end"
        /\ pc[p] = "snapshot_running" =>
               /\ svc["dovecot"] = "stopped" /\ svc["postfix"] = "stopped"
               /\ ~IssuedAny(p, "start")
        /\ (\E i \in DOMAIN log[p] : log[p][i].op = "stop" /\ ~log[p][i].ok)
               => ~IssuedAny(p, "snapshot_begin")

\* C3's case: a run has ended whose snapshot ran between the stops and the
\* starts.
C3_Witness ==
    \E p \in Procs :
        /\ pc[p] = "done"
        /\ IssuedAny(p, "snapshot_end")
        /\ Succeeded(p, "start", "postfix")

\* C4: with a first line of secret_key.txt shorter than 43 characters no run
\* issues a service stop and no run ends normally, whether or not a full
\* backup was requested.
C4_ShortPassphraseFailsBeforeStop ==
    passLen < PassphraseMin =>
        \A p \in Procs : ~IssuedAny(p, "stop") /\ pc[p] # "done"

\* a run that is past the entry guard
PastGuard(p) == pc[p] \notin {"idle", "guard"} /\ err[p] # "AlreadyRunning"

\* C5: at most one run is past the entry guard at any time, and a run that
\* found the lock held has failed at once, having moved, stopped, run,
\* pruned and cleaned up nothing.
C5_AtMostOneRunPastGuard ==
    /\ \A p, q \in Procs : (PastGuard(p) /\ PastGuard(q)) => p = q
    /\ \A p \in Procs : PastGuard(p) => lock = p
    /\ \A p \in Procs :
           err[p] = "AlreadyRunning" =>
               /\ pc[p] = "aborted"
               /\ lock # p
               /\ log[p] = <<>>
               /\ config[p] = EmptyDict

\* C5's case: one run is rejected while the other is taking its snapshot.
C5_Witness ==
    \E p, q \in Procs :
        /\ err[p] = "AlreadyRunning"
        /\ pc[q] = "snapshot_running"

\* the total size of the first n records of a chain
RECURSIVE SizeOfFirst(_, _)
SizeOfFirst(b, n) == IF n = 0 THEN 0 ELSE SizeOfFirst(b, n - 1) + b[n].size

HasFull(b) == \E i \in DOMAIN b : b[i].full

\* the position of the most recent full record of a chain that has one
MostRecentFull(b) ==
    CHOOSE i \in DOMAIN b : b[i].full /\ \A j \in 1..(i - 1) : ~b[j].full

\* C6: should_force_full is true exactly when the chain holds no full record
\* or the records newer than its most recent full record add up to strictly
\* more than half of that record's size.
C6_ForceFullIffNoFullOrOverHalf ==
    stPc = "decided" =>
        (forceFull <=>
            (\/ ~HasFull(statusResult.backups)
             \/ 2 * SizeOfFirst(statusResult.backups,
                                MostRecentFull(statusResult.backups) - 1)
                    > statusResult.backups[MostRecentFull(statusResult.backups)].size))

\* C6's case: increments of exactly half the size of the full backup they
\* follow, and no full backup forced.
C6_Witness ==
    /\ stPc = "decided"
    /\ ~forceFull
    /\ HasFull(statusResult.backups)
    /\ 2 * SizeOfFirst(statusResult.backups, MostRecentFull(statusResult.backups) - 1)
           = statusResult.backups[MostRecentFull(statusResult.backups)].size

\* C7: the mode of the snapshot invocation is "full" exactly when the caller
\* asked for a full backup or should_force_full holds of the chain this
\* run's status query reported, and "incr" otherwise.
C7_ModeFullIffRequestedOrForced ==
    \A p \in Procs : \A i \in DOMAIN log[p] :
        log[p][i].op = "snapshot_begin" =>
            /\ log[p][i].arg \in {"full", "incr"}
            /\ log[p][i].arg = "full" <=>
                   (requested[p] \/ should_force_full(chain[p]))

\* C7's case: an incremental snapshot after a status query that reported a
\* chain with a full backup.
C7_Witness ==
    \E p \in Procs :
        /\ Issued(p, "snapshot_begin", "incr")
        /\ ~requested[p]
        /\ chain[p] # <<>>

\* C8: in the result of backup_status every incremental record of a segment
\* carries the deleted_in of the segment's full record.
C8_SegmentSharesDeletedIn ==
    (stPc # "start" /\ statusResult.error = "none") =>
        \A j \in DOMAIN statusResult.backups : \A i \in 1..(j - 1) :
            (/\ statusResult.backups[j].full
             /\ \A k \in i..(j - 1) : ~statusResult.backups[k].full)
                => statusResult.backups[i].deleted_in
                       = statusResult.backups[j].deleted_in

\* C8's case: an older segment, a full backup and an increment below a newer
\* full backup, that carries an estimate.
C8_Witness ==
    /\ stPc # "start"
    /\ statusResult.error = "none"
    /\ Len(statusResult.backups) = 3
    /\ statusResult.backups[1].full
    /\ ~statusResult.backups[2].full
    /\ statusResult.backups[3].full
    /\ statusResult.backups[3].deleted_in # NoText

\* 10 to the n
RECURSIVE PowerOfTen(_)
PowerOfTen(n) == IF n = 0 THEN 1 ELSE 10 * PowerOfTen(n - 1)

\* the sum of the last n digits of s, each times its place value
RECURSIVE PlaceValue(_, _)
PlaceValue(s, n) ==
    IF n = 0 THEN 0
    ELSE PlaceValue(s, n - 1)
         + DigitVal(s[Len(s) - n + 1]) * PowerOfTen(n - 1)

\* the integer min_age denotes
AgeDenoted(a) == IF a.t = "int" THEN a.v ELSE PlaceValue(a.v, Len(a.v))

\* C9: get() after set(target, user, pass, minAge) returns the written
\* target, target_user and target_pass, and min_age_in_days as the integer
\* minAge denotes, given as an integer or as a string of digits.
C9_SetGetRoundTrip ==
    (lastOp = "get" /\ written.set) =>
        /\ cfgResult["target"] = written.target
        /\ cfgResult["target_user"] = written.target_user
        /\ cfgResult["target_pass"] = written.target_pass
        /\ cfgResult["min_age_in_days"].t = "int"
        /\ cfgResult["min_age_in_days"].v = AgeDenoted(written.min_age)

\* C9's case: a get() after a set() whose minAge was a string of two digits.
C9_Witness ==
    /\ lastOp = "get"
    /\ written.set
    /\ written.min_age = StrV(<<"7", "0">>)
    /\ cfgResult["min_age_in_days"] = IntV(70)

\* C10: a get() made while custom.yaml is unreadable, unparseable or not a
\* mapping returns the built-in defaults, whatever sets, gets, corruptions
\* and removals went before it.
C10_BrokenDocumentYieldsDefaults ==
    (lastOp = "get" /\ LoadFails(doc)) =>
        /\ cfgResult["min_age_in_days"] = IntV(DefaultMinAge)
        /\ cfgResult["target"] = StrV(DefaultTarget)

\* C11: when custom.yaml is a mapping that lacks min_age_in_days or target,
\* get_backup_config returns a config in which the missing field has its
\* built-in default and every present field has its persisted value.
C11_MissingFieldDefaulted ==
    (lastOp = "get" /\ ~LoadFails(doc)) =>
        \A k \in {"min_age_in_days", "target"} :
            cfgResult[k] = IF doc.body[k] = NoEntry
                           THEN BuiltinDefaults[k]
                           ELSE LoadValue(doc.body[k])

\* the keys backup_set_custom assigns (lines 333-336)
WrittenKeys == {"target", "target_user", "target_pass", "min_age_in_days"}

\* C12: after a successful backup_set_custom the persisted document holds
\* exactly the four written fields; no other key of the document that was
\* persisted before is carried over.
C12_SetReplacesWholeRecord ==
    lastOp = "set" =>
        /\ doc.kind = "map"
        /\ \A k \in Keys : (doc.body[k] # NoEntry) <=> (k \in WrittenKeys)

\* the snapshot invocation of lines 230-243 failed: line 246 logged it
SnapshotInvocationFailed(p) == Succeeded(p, "warn", "Backup failed")

SnapshotProduced(p) ==
    \E i \in DOMAIN log[p] : log[p][i].op = "snapshot_end" /\ log[p][i].ok

\* C13: the relocated legacy directory is deleted only once a new snapshot
\* has been produced; in a run that relocated it and whose snapshot
\* invocation failed, the relocated directory still exists when the run ends.
C13_RelocatedKeptUntilSnapshot ==
    \A p \in Procs :
        /\ Issued(p, "rmtree", "migrated_unencrypted_backup") => SnapshotProduced(p)
        /\ (Ended(p) /\ Issued(p, "move", "backup/duplicity")
                /\ SnapshotInvocationFailed(p))
               => fs.migrated

\* C14: the migration step of a run that finds backup/duplicity leaves no
\* backup/duplicity behind; the migration step of a run that finds none
\* moves nothing, deletes nothing and issues nothing, so backup/encrypted is
\* left as it is.
C14_MigrationOneTime ==
    [][\A p \in Procs :
          (pc[p] = "migrate" /\ pc'[p] # "migrate") =>
              IF fs.old
              THEN ~fs'.old /\ fs'.migrated
              ELSE fs' = fs /\ log'[p] = log[p] /\ pc'[p] = "mode"]_vars

\* a later run has passed its migration step after an earlier run relocated
\* the legacy directory and was aborted before it could delete it
C14_Witness ==
    \E p \in Procs :
        /\ pc[p] = "mode"
        /\ log[p] = <<>>
        /\ ~fs.old
        /\ fs.migrated
        /\ fs.encrypted

\* the positions of perform_backup after the cleanup invocation
AfterCleanup == {"chown", "posthook", "verify", "done"}

\* C15: a failed remove-older-than does not keep the cleanup invocation from
\* being issued, and a failed cleanup does not keep the steps after it from
\* running: a run in which either failed ends early only through a failure
\* of the ownership change or of the post-backup script, and when it ends
\* normally the ownership change (file target), the script (when present)
\* and both port waits have been issued.
C15_PruneAndCleanupNonFatal ==
    \A p \in Procs :
        /\ (Failed(p, "duplicity", "remove-older-than")
                /\ pc[p] \in AfterCleanup \cup {"aborted"})
               => /\ Issued(p, "duplicity", "cleanup")
                  /\ Succeeded(p, "warn", "Removal of old backups failed")
        /\ (Failed(p, "duplicity", "cleanup") /\ pc[p] # "cleanup")
               => /\ Succeeded(p, "warn", "Cleanup of backups failed")
                  /\ pc[p] \in AfterCleanup \cup {"aborted"}
                  /\ pc[p] = "aborted"
                         => (Failed(p, "chown", "backup/encrypted")
                                \/ Failed(p, "su", "backup/after-backup"))
                  /\ pc[p] = "done"
                         => /\ Issued(p, "wait", "25") /\ Issued(p, "wait", "993")
                            /\ get_target_type(config[p]) = <<"file">>
                                   => Issued(p, "chown", "backup/encrypted")
                            /\ postScript => Issued(p, "su", "backup/after-backup")

\* a run ends normally although both its remove-older-than and its cleanup
\* invocation failed
C15_Witness ==
    \E p \in Procs :
        /\ pc[p] = "done"
        /\ Failed(p, "duplicity", "remove-older-than")
        /\ Failed(p, "duplicity", "cleanup")
        /\ Issued(p, "chown", "backup/encrypted")
        /\ Issued(p, "su", "backup/after-backup")

\* what backup_status returns or raises for the listing and clock of the
\* state, duplicity having exited with 0 (ok) or not
QueryResult(ok) ==
    StatusQuery(get_backup_config(doc, default_config),
                get_backup_config(doc, default_config),
                passLen, ok, statusLines, now)

\* C16: backup_status raises whenever the collection-status query exits
\* non-zero or its output holds no full/inc record; in neither case does it
\* return a chain.
C16_StatusRaisesWhenUnavailable ==
    stPc # "start" =>
        \A ok \in BOOLEAN :
            (statusResult = QueryResult(ok) /\ (~ok \/ statusLines = <<>>))
                => statusResult.error # "none"

\* C17: a run in which both services were started again has waited for
\* ports 25 and 993 by the time it ends, whatever became of the ownership
\* change and of the post-backup script.
C17_PortsPolledAfterRestart ==
    \A p \in Procs :
        (Ended(p) /\ Succeeded(p, "start", "dovecot")
                  /\ Succeeded(p, "start", "postfix"))
            => (Issued(p, "wait", "25") /\ Issued(p, "wait", "993"))

\* a start of service name is issued after position i of the log of p
StartIssuedAfter(p, name, i) ==
    \E j \in DOMAIN log[p] :
        j > i /\ log[p][j].op = "start" /\ log[p][j].arg = name

\* C18: when a run has ended, normally or by an error, every service whose
\* stop succeeded has had a start issued after that stop.
C18_StoppedServiceGetsStart ==
    \A p \in Procs :
        Ended(p) =>
            \A i \in DOMAIN log[p] :
                (log[p][i].op = "stop" /\ log[p][i].ok)
                    => StartIssuedAfter(p, log[p][i].arg, i)

\* C19: every record of a non-empty chain backup_status returns carries a
\* deleted_in estimate.
C19_EveryRecordHasDeletedIn ==
    (stPc # "start" /\ statusResult.error = "none") =>
        \A i \in DOMAIN statusResult.backups :
            statusResult.backups[i].deleted_in # NoText

-----------------------------------------------------------------------------
(* reldate on its own: one record of a listing, its date and the clock     *)
(* drawn so that the gaps run from hours to more than a year, the clock     *)
(* before the date included.                                                *)

RelDates == {At(10, 0), At(30, 600), At(48, 180)}

RelRefs == {At(9, 0), At(10, 180), At(11, 60), At(13, 0), At(18, 0), At(50, 0),
            At(378, 0), At(410, 0)}

ReldateInit ==
    /\ doc = AbsentDoc
    /\ IdleConfig
    /\ stPc = "start"
    /\ statusLines \in {<<Line(type, d, 1)>> : type \in {"full", "inc"}, d \in RelDates}
    /\ now \in RelRefs
    /\ statusResult = StatusOk(<<>>)
    /\ forceFull = FALSE
    /\ IdleRuns

ReldateSpec == ReldateInit /\ [][StatusNext]_vars

MonthsAndDays == {"%d months, %d days", "%d month, %d days"}

\* whole days from date to ref
WholeDays(date, ref) == (ref - date) \div MinutesPerDay

\* the format the unit tiers call for, ref not being before date
TierOf(date, ref) ==
    CASE ref >= AddMonths(date, 1) -> MonthsAndDays
      [] WholeDays(date, ref) >= 7 -> {"%d days"}
      [] WholeDays(date, ref) > 1 -> {"%d days, %d hours"}
      [] WholeDays(date, ref) = 1 -> {"%d day, %d hours"}
      [] OTHER -> {"%d hours, %d minutes"}

\* C20: reldate(date, ref) gives the sentinel when ref is before date, and
\* otherwise the format of the coarsest unit the gap reaches: months and days
\* for a gap of a month or more (a year or more included), days from 7 days
\* on, days and hours above one day, day and hours at one day, hours and
\* minutes below.
C20_ReldateCoarsestUnit ==
    (stPc # "start" /\ statusResult.error = "none") =>
        \A i \in DOMAIN statusResult.backups :
            IF now < statusResult.backups[i].date
            THEN statusResult.backups[i].date_delta = Text("the future?", 0, 0)
            ELSE statusResult.backups[i].date_delta.kind
                     \in TierOf(statusResult.backups[i].date, now)

====
